---- MODULE Spec2Model ----
(***************************************************************************)
(* HPDDM, src/schwarz.hpp: the Schwarz preconditioner.                     *)
(*                                                                         *)
(* Vectors are kept symbolically.  A block of dof entries is a term: a     *)
(* leaf (what the caller put in a buffer) or a kernel applied to terms.    *)
(* The kernels that are not part of schwarz.hpp (local solve, coarse       *)
(* solve, halo exchange, diag, gemv, csrmv) are uninterpreted, so that two *)
(* results are equal only if the same kernels were applied in the same     *)
(* order to the same data.                                                 *)
(***************************************************************************)
EXTENDS Integers, Sequences, FiniteSets, TLC

\* ------------------------------------------------------------------ bounds
MaxMu == 2      \* right-hand sides passed to apply: mu \in 1..MaxMu
MaxFuse == 2    \* fused reductions passed to apply: fuse \in 0..MaxFuse

\* ------------------------------------------------------------- constants
Prcndtnr == {"NO", "SY", "GE", "OS", "OG", "AD", "BA"}
MethodValues == 0 .. 5
CorrectionValues == -1 .. 2
d__0 == 0
d__1 == 1
d__2 == -1

Max(a, b) == IF a >= b THEN a ELSE b

\* ------------------------------------------------------------------ terms
Tm(o, i, a) == [op |-> o, k |-> i, args |-> a]
Leaf(o, i) == Tm(o, i, <<>>)

Buf(c, e) == [col |-> c, ext |-> e]
NoBuf == Buf(<<>>, <<>>)
Ptr == {"in", "out", "work", "tmp"}

\* the column j of buffer p, or what lies behind the buffer
Col(m, p, j) == IF j <= Len(m.buf[p].col) THEN m.buf[p].col[j] ELSE Leaf("oob", j)
\* the entry dof + j - 1 of buffer p
Ext(m, p, j) == IF j <= Len(m.buf[p].ext) THEN m.buf[p].ext[j] ELSE Leaf("oob", j)

\* a kernel o applied column by column: dst[j] <- o(src[j]), j = 1 .. n
MapCols(m, src, dst, n, o) ==
    [m EXCEPT !.buf[dst].col = [j \in 1 .. Len(m.buf[dst].col) |->
                                   IF j <= n THEN Tm(o, 0, <<Col(m, src, j)>>)
                                             ELSE m.buf[dst].col[j]],
              !.oob = @ \/ n > Len(m.buf[dst].col) \/ n > Len(m.buf[src].col),
              !.log = Append(@, o)]

\* Wrapper<K>::diag(dof, mu, d, in, out), and in place when src = dst
diag(m, src, dst, n) == MapCols(m, src, dst, n, "diag")
\* super::_s.solve(in, out, mu), and in place when src = dst
solve(m, src, dst, n) == MapCols(m, src, dst, n, "solve")
\* Subdomain<K>::exchange(out, mu)
exchange(m, p, n) == MapCols(m, p, p, n, "exchange")
\* Wrapper<K>::csrmm: out <- A in, mu columns
csrmm(m, src, dst, n) == MapCols(m, src, dst, n, "csrmm")

\* std::copy_n(in, n * dof, out)
copy_n(m, src, dst, n) ==
    [m EXCEPT !.buf[dst].col = [j \in 1 .. Len(m.buf[dst].col) |->
                                   IF j <= n THEN Col(m, src, j) ELSE m.buf[dst].col[j]],
              !.oob = @ \/ n > Len(m.buf[dst].col) \/ n > Len(m.buf[src].col),
              !.log = Append(@, "copy_n")]

\* gemv with transc: _uc <- Z^T src
gemv_transc(m, src) ==
    [m EXCEPT !.uc.loc = Tm("ZT", 0, <<Col(m, src, 1)>>), !.log = Append(@, "gemv_transc")]

\* gemv with transa: dst <- Z _uc
gemv_transa(m, dst) ==
    [m EXCEPT !.buf[dst].col[1] = Tm("Z", 0, <<m.uc.loc>>), !.log = Append(@, "gemv_transa")]

\* y <- alpha x + y
axpy(m, alpha, x, y) ==
    [m EXCEPT !.buf[y].col[1] = Tm("axpy", alpha, <<Col(m, x, 1), Col(m, y, 1)>>),
              !.log = Append(@, "axpy")]

\* y <- alpha A x + beta y, with beta = d__1
csrmv(m, alpha, x, y) ==
    [m EXCEPT !.buf[y].col[1] = Tm("csrmv", alpha, <<Col(m, x, 1), Col(m, y, 1)>>),
              !.log = Append(@, "csrmv")]

\* ------------------------------------------------------- coarse operator
\* super::_co->reallocateRHS(_uc, fuse): _uc holds getLocal() + fuse entries
reallocateRHS(m, fuse) ==
    [m EXCEPT !.uc.ext = [j \in 1 .. fuse |-> IF j <= Len(m.uc.ext) THEN m.uc.ext[j]
                                                                   ELSE Leaf("uc", j)],
              !.log = Append(@, "reallocateRHS")]

\* std::copy_n(out + dof, fuse, _uc + getLocal())
copy_n_rhs(m, p, fuse) ==
    [m EXCEPT !.uc.ext = [j \in 1 .. Len(m.uc.ext) |->
                             IF j <= fuse THEN Ext(m, p, j) ELSE m.uc.ext[j]],
              !.oob = @ \/ fuse > Len(m.buf[p].ext),
              !.log = Append(@, "copy_n:out->uc")]

\* std::copy_n(_uc + getLocal(), fuse, out + dof)
copy_n_sol(m, p, fuse) ==
    [m EXCEPT !.buf[p].ext = [j \in 1 .. Len(m.buf[p].ext) |->
                                 IF j <= fuse THEN m.uc.ext[j] ELSE m.buf[p].ext[j]],
              !.oob = @ \/ fuse > Len(m.buf[p].ext),
              !.log = Append(@, "copy_n:uc->out")]

\* the coarse solve of the right-hand side uc with fuse extra unknowns: every
\* solved entry depends on the whole right-hand side.  An excluded process
\* holds no local coarse entries.
Esolve(uc, excluded, fuse) ==
    LET rhs == <<uc.loc>> \o SubSeq(uc.ext, 1, fuse)
    IN  [loc |-> IF excluded THEN uc.loc ELSE Tm("E", 0, rhs),
         ext |-> [j \in 1 .. Len(uc.ext) |-> IF j <= fuse THEN Tm("E", j, rhs)
                                                          ELSE uc.ext[j]]]

\* super::_co->callSolver<excluded>(_uc, fuse)
callSolver(m, excluded, fuse) ==
    [m EXCEPT !.uc = Esolve(m.uc, excluded, fuse), !.log = Append(@, "callSolver")]

\* super::_co->IcallSolver<excluded>(_uc, rq, fuse): the request is issued and
\* _uc is from now on owned by the pending request
IcallSolver(m, excluded, fuse) ==
    [m EXCEPT !.log = Append(@, "IcallSolver")]

\* the requests IcallSolver leaves pending
IcallSolverRq(excluded) == IF excluded THEN <<"null", "pending">> ELSE <<"pending", "pending">>

\* ---------------------------------------------------------- callNumfact
\* callNumfactType with the no-matrix tests of schwarz_method swapped
callNumfactType_swapped(A, method) ==
    IF A THEN (IF method = 1 THEN "OS" ELSE "OG")
    ELSE IF method = 5 THEN "SY"
    ELSE IF method = 3 THEN "NO"
    ELSE "GE"

callNumfactType(A, method) ==
    IF A THEN (IF method = 1 THEN "OS" ELSE "OG")
    ELSE IF method = 3 THEN "SY"
    ELSE IF method = 5 THEN "NO"
    ELSE "GE"

callNumfactOpt(A, o) ==
    IF A \/ o.schwarz_method = 3 \/ o.schwarz_method = 5 THEN o
    ELSE [o EXCEPT !.schwarz_method = 0]

\* super::_s.numfact(OS or OG ? A : _a, OS ? true : false)
numfact(A, t) == [mat |-> IF t \in {"OS", "OG"} THEN (IF A THEN "A" ELSE "nullptr") ELSE "_a",
                  sym |-> t = "OS"]

\* ------------------------------------------------------------ deflation
\* deflation scaling and exchanging its result in every mode
deflation_alwaysScales(m, excluded, type, src, dst, fuse) ==
    LET m1 == IF fuse > 0 THEN copy_n_rhs(reallocateRHS(m, fuse), dst, fuse) ELSE m
        m2 == IF excluded THEN callSolver(m1, excluded, fuse)
              ELSE LET a == diag(m1, IF src = "nullptr" THEN dst ELSE src, dst, 1)
                       b == gemv_transc(a, dst)
                       c == callSolver(b, excluded, fuse)
                       d == gemv_transa(c, dst)
                   IN  exchange(diag(d, dst, dst, 1), dst, 1)
    IN  IF fuse > 0 THEN copy_n_sol(m2, dst, fuse) ELSE m2

\* deflation copying the fused entries back on non-excluded processes only
deflation_noCopyBackExcluded(m, excluded, type, src, dst, fuse) ==
    LET m1 == IF fuse > 0 THEN copy_n_rhs(reallocateRHS(m, fuse), dst, fuse) ELSE m
        m2 == IF excluded THEN callSolver(m1, excluded, fuse)
              ELSE LET a == diag(m1, IF src = "nullptr" THEN dst ELSE src, dst, 1)
                       b == gemv_transc(a, dst)
                       c == callSolver(b, excluded, fuse)
                       d == gemv_transa(c, dst)
                   IN  IF type # "AD" THEN exchange(diag(d, dst, dst, 1), dst, 1) ELSE d
    IN  IF fuse > 0 /\ ~excluded THEN copy_n_sol(m2, dst, fuse) ELSE m2

deflation(m, excluded, type, src, dst, fuse) ==
    LET m1 == IF fuse > 0 THEN copy_n_rhs(reallocateRHS(m, fuse), dst, fuse) ELSE m
        m2 == IF excluded THEN callSolver(m1, excluded, fuse)
              ELSE LET a == diag(m1, IF src = "nullptr" THEN dst ELSE src, dst, 1)
                       b == gemv_transc(a, dst)
                       c == callSolver(b, excluded, fuse)
                       d == gemv_transa(c, dst)
                   IN  IF type # "AD" THEN exchange(diag(d, dst, dst, 1), dst, 1) ELSE d
    IN  IF fuse > 0 THEN copy_n_sol(m2, dst, fuse) ELSE m2

\* Ideflation: early tells whether the pending request has completed by the
\* time the fused entries are copied back (the copy is not ordered with it)
Ideflation(m, excluded, src, dst, fuse, early) ==
    LET m1 == IF fuse > 0 THEN copy_n_rhs(reallocateRHS(m, fuse), dst, fuse) ELSE m
        m2 == IF excluded THEN IcallSolver(m1, excluded, fuse)
              ELSE IcallSolver(gemv_transc(diag(m1, src, dst, 1), dst), excluded, fuse)
        m3 == IF early THEN [m2 EXCEPT !.uc = Esolve(m2.uc, excluded, fuse)] ELSE m2
    IN  IF fuse > 0 THEN copy_n_sol(m3, dst, fuse) ELSE m3

\* ------------------------------------------------------------------ GMV
\* GMV scaling its input as well, before the sparse product
GMV_scalesInput(m, src, dst, mu) ==
    exchange(diag(csrmm(diag(m, src, dst, mu), dst, dst, mu), dst, dst, mu), dst, mu)

\* lines 399-402, the branch the preprocessor keeps
GMV(m, src, dst, mu) == exchange(diag(csrmm(m, src, dst, mu), dst, dst, mu), dst, mu)

\* ---------------------------------------------------------------- apply
\* line 230
readCorrection(o) == Max(o.schwarz_coarse_correction, -1)

\* applyBranch without the test of super::_co
applyBranch_noNullTest(co, correction) ==
    IF correction = -1 THEN "single"
    ELSE IF correction = 1 THEN "additive"
    ELSE IF correction = 2 THEN "balanced"
    ELSE "deflated"

\* applyBranch with if(correction) in place of if(correction == 1)
applyBranch_nonzero(co, correction) ==
    IF ~co \/ correction = -1 THEN "single"
    ELSE IF correction # 0 THEN "additive"
    ELSE "deflated"

\* lines 231, 259, 283, 294: the branch of apply
applyBranch(co, correction) ==
    IF ~co \/ correction = -1 THEN "single"
    ELSE IF correction = 1 THEN "additive"
    ELSE IF correction = 2 THEN "balanced"
    ELSE "deflated"

\* applySingle copying dof entries instead of mu * dof in mode NO
applySingle_oneColumn(m, type, excluded, mu) ==
    IF type = "NO" THEN copy_n(m, "in", "out", 1)
    ELSE IF type \in {"GE", "OG"}
         THEN IF ~excluded
              THEN exchange(diag(solve(m, "in", "out", mu), "out", "out", mu), "out", mu)
              ELSE m
    ELSE IF ~excluded
         THEN exchange(IF type = "OS"
                       THEN diag(solve(diag(m, "in", "out", mu), "out", "out", mu),
                                 "out", "out", mu)
                       ELSE solve(m, "in", "out", mu),
                       "out", mu)
         ELSE m

\* applySingle without the test of excluded in modes GE and OG
applySingle_noExcludedTest(m, type, excluded, mu) ==
    IF type = "NO" THEN copy_n(m, "in", "out", mu)
    ELSE IF type \in {"GE", "OG"}
         THEN exchange(diag(solve(m, "in", "out", mu), "out", "out", mu), "out", mu)
    ELSE IF ~excluded
         THEN exchange(IF type = "OS"
                       THEN diag(solve(diag(m, "in", "out", mu), "out", "out", mu),
                                 "out", "out", mu)
                       ELSE solve(m, "in", "out", mu),
                       "out", mu)
         ELSE m

\* applySingle with the scaling around the solve in mode SY as in mode OS
applySingle_symmetricScaled(m, type, excluded, mu) ==
    IF type = "NO" THEN copy_n(m, "in", "out", mu)
    ELSE IF type \in {"GE", "OG"}
         THEN IF ~excluded
              THEN exchange(diag(solve(m, "in", "out", mu), "out", "out", mu), "out", mu)
              ELSE m
    ELSE IF ~excluded
         THEN exchange(IF type \in {"OS", "SY"}
                       THEN diag(solve(diag(m, "in", "out", mu), "out", "out", mu),
                                 "out", "out", mu)
                       ELSE solve(m, "in", "out", mu),
                       "out", mu)
         ELSE m

\* applySingle with mode OG taking the scaling of mode OS
applySingle_optimizedAlike(m, type, excluded, mu) ==
    IF type = "NO" THEN copy_n(m, "in", "out", mu)
    ELSE IF type = "GE"
         THEN IF ~excluded
              THEN exchange(diag(solve(m, "in", "out", mu), "out", "out", mu), "out", mu)
              ELSE m
    ELSE IF ~excluded
         THEN exchange(IF type \in {"OS", "OG"}
                       THEN diag(solve(diag(m, "in", "out", mu), "out", "out", mu),
                                 "out", "out", mu)
                       ELSE solve(m, "in", "out", mu),
                       "out", mu)
         ELSE m

\* lines 232-252
applySingle(m, type, excluded, mu) ==
    IF type = "NO" THEN copy_n(m, "in", "out", mu)
    ELSE IF type \in {"GE", "OG"}
         THEN IF ~excluded
              THEN exchange(diag(solve(m, "in", "out", mu), "out", "out", mu), "out", mu)
              ELSE m
    ELSE IF ~excluded
         THEN exchange(IF type = "OS"
                       THEN diag(solve(diag(m, "in", "out", mu), "out", "out", mu),
                                 "out", "out", mu)
                       ELSE solve(m, "in", "out", mu),
                       "out", mu)
         ELSE m

\* workPtr never using the work buffer of the caller
workPtr_alwaysIn(work) == "in"

\* lines 255-258: where work points
workPtr(work) == IF ~work THEN "in" ELSE "work"

applyWork(m, work) == IF ~work THEN m ELSE copy_n(m, "in", "work", 1)

\* applyAdditiveSync with a coarse term that deflation neither scales nor
\* exchanges, in any mode
applyAdditiveSync_unscaledCoarse(m, type, excluded, wk, fuse) ==
    LET m1 == deflation(m, excluded, "AD", "in", "out", fuse)
    IN  IF excluded THEN m1
        ELSE exchange(diag(axpy(solve(m1, wk, wk, 1), d__1, wk, "out"),
                           "out", "out", 1), "out", 1)

\* lines 274-280: the overlapped-additive strategy without non-blocking collectives
applyAdditiveSync(m, type, excluded, wk, fuse) ==
    LET m1 == deflation(m, excluded, type, "in", "out", fuse)
    IN  IF excluded THEN m1
        ELSE exchange(diag(axpy(solve(m1, wk, wk, 1), d__1, wk, "out"),
                           "out", "out", 1), "out", 1)

\* applyBalancedStep adding the correction of the product instead of
\* subtracting it
applyBalancedStep_plus(m, type, excluded, mu, wk, fuse) ==
    LET t0 == [m EXCEPT !.buf["tmp"] = Buf(<<Leaf("tmp", 1)>>, <<>>)]
        t1 == GMV(t0, wk, "tmp", mu)
        t2 == deflation(t1, excluded, type, "nullptr", "tmp", fuse)
        t3 == axpy(t2, d__1, "tmp", wk)
    IN  [t3 EXCEPT !.buf["tmp"] = NoBuf]

\* lines 295-299
applyBalancedStep(m, type, excluded, mu, wk, fuse) ==
    LET t0 == [m EXCEPT !.buf["tmp"] = Buf(<<Leaf("tmp", 1)>>, <<>>)]
        t1 == GMV(t0, wk, "tmp", mu)
        t2 == deflation(t1, excluded, type, "nullptr", "tmp", fuse)
        t3 == axpy(t2, d__2, "tmp", wk)
    IN  [t3 EXCEPT !.buf["tmp"] = NoBuf]

\* applyDeflated without the halo exchange of the residual
applyDeflated_noExchange(m, type, excluded, mu, wk, fuse, correction) ==
    LET m1 == deflation(m, excluded, type, "in", "out", fuse)
    IN  IF excluded THEN m1
        ELSE LET m2 == csrmv(m1, d__2, "out", wk)
                 m3 == diag(m2, wk, wk, 1)
                 m4 == IF type = "OS" THEN diag(m3, wk, wk, 1) ELSE m3
                 m5 == solve(m4, wk, wk, 1)
                 m6 == exchange(diag(m5, wk, wk, 1), wk, 1)
                 m7 == IF correction = 2
                       THEN applyBalancedStep(m6, type, excluded, mu, wk, fuse)
                       ELSE m6
             IN  axpy(m7, d__1, wk, "out")

\* lines 284-302
applyDeflated(m, type, excluded, mu, wk, fuse, correction) ==
    LET m1 == deflation(m, excluded, type, "in", "out", fuse)
    IN  IF excluded THEN m1
        ELSE LET m2 == csrmv(m1, d__2, "out", wk)
                 m3 == exchange(diag(m2, wk, wk, 1), wk, 1)
                 m4 == IF type = "OS" THEN diag(m3, wk, wk, 1) ELSE m3
                 m5 == solve(m4, wk, wk, 1)
                 m6 == exchange(diag(m5, wk, wk, 1), wk, 1)
                 m7 == IF correction = 2
                       THEN applyBalancedStep(m6, type, excluded, mu, wk, fuse)
                       ELSE m6
             IN  axpy(m7, d__1, wk, "out")

\* applyAdditiveJoin without the scaling of the sum
applyAdditiveJoin_noScale(m, wk) ==
    exchange(axpy(gemv_transa(m, "out"), d__1, wk, "out"), "out", 1)

\* lines 265-269: after the join
applyAdditiveJoin(m, wk) ==
    exchange(diag(axpy(gemv_transa(m, "out"), d__1, wk, "out"), "out", "out", 1), "out", 1)

\* ---------------------------------------------------------------- state
VARIABLES
    _type,        \* Schwarz::_type
    _s,           \* super::_s: what numfact factorized
    _co,          \* super::_co # nullptr
    _uc,          \* super::_uc: the coarse right-hand side and solution
    opt,          \* Option: schwarz_method, schwarz_coarse_correction
    icollective,  \* HPDDM_ICOLLECTIVE of the build
    buf,          \* the vectors of the apply call: in, out, work, tmp
    log,          \* the kernels the apply call has run, in order
    oob,          \* the apply call has read or written outside a buffer
    call,         \* the arguments of the apply call
    pc,           \* idle, issued, solved, done
    rq,           \* MPI_Request rq[2] of apply
    prev          \* what the previous apply call did

\* the state of apply and of the setup
applyVars == <<_type, _s, _co, _uc, opt, icollective, buf, log, oob, call, pc, rq, prev>>

\* the state of multiplicityScaling, one entry per subdomain
VARIABLES
    _d,           \* the array d: the weights, as rationals
    _map,         \* Subdomain<K>::_map: per neighbor, its rank and the shared indices
    _sbuff,       \* Subdomain<K>::_sbuff: one send buffer per neighbor
    _rbuff,       \* Subdomain<K>::_rbuff: one receive buffer per neighbor
    _rq,          \* Subdomain<K>::_rq: the receive requests, then the send requests
    spc,          \* entry, posted, returned
    entry,        \* d as it was on entry
    order         \* the indices MPI_Waitany has returned, in order

scalingVars == <<_d, _map, _sbuff, _rbuff, _rq, spc, entry, order>>

\* multiplicityScaling is not running
NoScaling ==
    /\ _d = <<>> /\ _map = <<>> /\ _sbuff = <<>> /\ _rbuff = <<>> /\ _rq = <<>>
    /\ spc = <<>> /\ entry = <<>> /\ order = <<>>

\* the state of solveGEVP
VARIABLES
    nu,           \* the nu of the caller, passed by reference
    geneo_nu,     \* the option geneo_nu
    _ev,          \* super::_ev: the deflation vectors
    evp,          \* the eigen-solver: what was requested and what it achieved
    gpc           \* entry, returned

gevpVars == <<nu, geneo_nu, _ev, evp, gpc>>

\* solveGEVP is not running
NoGEVP == nu = 0 /\ geneo_nu = 0 /\ _ev = <<>> /\ evp = <<>> /\ gpc = "off"

\* the state of computeError
VARIABLES
    _a,           \* Subdomain<K>::_a: _sym and the stored entries of each row
    f,            \* the right-hand sides
    storage,      \* what has been added to each entry of storage
    row,          \* the row i of the loop
    boundary,     \* what each row done was taken for: boundary, interior, continue
    epc           \* entry, rows, summed, returned

errorVars == <<_a, f, storage, row, boundary, epc>>

\* computeError is not running
NoError ==
    /\ _a = <<>> /\ f = <<>> /\ storage = <<>> /\ row = 0 /\ boundary = <<>> /\ epc = "off"

\* the state of scaleIntoOverlap
VARIABLES
    overlapD,     \* the array d of this subdomain, entry i at place i + 1
    overlapMap,   \* Subdomain<K>::_map: per neighbor, the shared indices
    overlapA,     \* the input matrix A: _sym, _ia, _ja, _a
    overlapB,     \* the output matrix B
    intoOverlap,  \* the std::set intoOverlap
    overlapTmp,   \* tmp: per element of intoOverlap, the pairs kept of its row
    overlapRows,  \* the iterations k of the parallel loop that have run
    opc           \* entry, rows, returned

overlapVars == <<overlapD, overlapMap, overlapA, overlapB, intoOverlap, overlapTmp,
                 overlapRows, opc>>

\* no matrix: a null pointer
NullMatrix == [_sym |-> FALSE, _ia |-> <<>>, _ja |-> <<>>, _a |-> <<>>]

\* scaleIntoOverlap is not running
NoOverlap ==
    /\ overlapD = <<>> /\ overlapMap = <<>> /\ overlapA = NullMatrix /\ overlapB = NullMatrix
    /\ intoOverlap = {} /\ overlapTmp = <<>> /\ overlapRows = {} /\ opc = "off"

\* what the apply life cycle and the setup leave alone
others == <<scalingVars, gevpVars, errorVars, overlapVars>>
NoOthers == NoScaling /\ NoGEVP /\ NoError /\ NoOverlap

vars == <<applyVars, others>>

NoCall == [excluded |-> FALSE, mu |-> 0, fuse |-> 0, work |-> FALSE, branch |-> "none"]
NoRq == <<"null", "null">>
NoPrev == [branch |-> "none", co |-> FALSE, excluded |-> FALSE, mu |-> 0,
           log |-> <<>>, out |-> <<>>]

\* apply is not running, in a mode callNumfact selects
NoApply ==
    /\ _type = "GE" /\ _s = numfact(FALSE, "GE")
    /\ opt = [schwarz_method |-> 0, schwarz_coarse_correction |-> -1]
    /\ _co = FALSE /\ _uc = [loc |-> Leaf("uc", 0), ext |-> <<>>] /\ icollective = FALSE
    /\ buf = [p \in Ptr |-> NoBuf] /\ log = <<>> /\ oob = FALSE /\ call = NoCall
    /\ pc = "idle" /\ rq = NoRq /\ prev = NoPrev

Mach == [buf |-> buf, uc |-> _uc, log |-> log, oob |-> oob]

SetMach(m) == buf' = m.buf /\ _uc' = m.uc /\ log' = m.log /\ oob' = m.oob

\* the vectors the caller passes to apply
CallBufs(mu, work, fuse) ==
    [p \in Ptr |->
        CASE p = "in" -> Buf([j \in 1 .. mu |-> Leaf("in", j)], <<>>)
          [] p = "out" -> Buf([j \in 1 .. mu |-> Leaf("out", j)],
                              [j \in 1 .. fuse |-> Leaf("x", j)])
          [] p = "work" -> IF work THEN Buf([j \in 1 .. mu |-> Leaf("work", j)], <<>>)
                                   ELSE NoBuf
          [] OTHER -> NoBuf]

\* no apply call is running
Idle ==
    /\ _co = FALSE
    /\ _uc = [loc |-> Leaf("uc", 0), ext |-> <<>>]
    /\ icollective \in BOOLEAN
    /\ buf = [p \in Ptr |-> NoBuf]
    /\ log = <<>>
    /\ oob = FALSE
    /\ call = NoCall
    /\ pc = "idle"
    /\ rq = NoRq
    /\ prev = NoPrev
    /\ NoOthers

\* after construction: the constructor leaves _type uninitialized, and the
\* options hold what the user gave
InitSetup ==
    /\ _type \in Prcndtnr
    /\ _s = [mat |-> "none", sym |-> FALSE]
    /\ opt \in [schwarz_method : MethodValues, schwarz_coarse_correction : CorrectionValues]
    /\ Idle

\* the value of schwarz_method callNumfact leaves with a mode
MethodOf(t) == IF t = "OS" THEN 1 ELSE IF t = "SY" THEN 3 ELSE IF t = "NO" THEN 5 ELSE 0

\* after the setup: _type holds a mode callNumfact selected, or what the
\* constructor left, and the local matrix is factorized
Init ==
    /\ _type \in Prcndtnr
    /\ _s = numfact(_type \in {"OS", "OG"}, _type)
    /\ opt \in [schwarz_method : {MethodOf(_type)},
                schwarz_coarse_correction : CorrectionValues]
    /\ Idle

\* -------------------------------------------------------------- actions
callNumfact(A) ==
    /\ pc = "idle"
    /\ _type' = callNumfactType(A, opt.schwarz_method)
    /\ opt' = callNumfactOpt(A, opt)
    /\ _s' = numfact(A, _type')
    /\ UNCHANGED <<_co, _uc, icollective, buf, log, oob, call, pc, rq, prev>>
    /\ UNCHANGED others

\* the user sets an option between two calls
setOption(key, v) ==
    /\ pc = "idle"
    /\ opt[key] # v
    /\ opt' = [opt EXCEPT ![key] = v]
    /\ UNCHANGED <<_type, _s, _co, _uc, icollective, buf, log, oob, call, pc, rq, prev>>
    /\ UNCHANGED others

buildTwo ==
    /\ pc = "idle"
    /\ ~_co
    /\ _co' = TRUE
    /\ UNCHANGED <<_type, _s, _uc, opt, icollective, buf, log, oob, call, pc, rq, prev>>
    /\ UNCHANGED others

\* apply up to its return, or up to the return of Ideflation
applyStart(excluded, mu, work, fuse, early) ==
    /\ pc = "idle"
    /\ LET correction == readCorrection(opt)
           branch == applyBranch(_co, correction)
           m0 == [buf |-> CallBufs(mu, work, fuse), uc |-> _uc, log |-> <<>>, oob |-> FALSE]
           wk == workPtr(work)
       IN  /\ call' = [excluded |-> excluded, mu |-> mu, fuse |-> fuse, work |-> work,
                       branch |-> branch]
           /\ IF branch = "single"
              THEN /\ SetMach(applySingle(m0, _type, excluded, mu))
                   /\ pc' = "done"
                   /\ rq' = NoRq
              ELSE IF branch = "additive" /\ icollective
              THEN /\ SetMach(Ideflation(applyWork(m0, work), excluded, "in", "out", fuse, early))
                   /\ pc' = "issued"
                   /\ rq' = IF early
                            THEN [i \in 1 .. 2 |-> IF IcallSolverRq(excluded)[i] = "pending"
                                                   THEN "complete" ELSE "null"]
                            ELSE IcallSolverRq(excluded)
              ELSE IF branch = "additive"
              THEN /\ SetMach(applyAdditiveSync(applyWork(m0, work), _type, excluded, wk, fuse))
                   /\ pc' = "done"
                   /\ rq' = NoRq
              ELSE /\ SetMach(applyDeflated(applyWork(m0, work), _type, excluded, mu, wk, fuse,
                                            correction))
                   /\ pc' = "done"
                   /\ rq' = NoRq
    /\ UNCHANGED <<_type, _s, _co, opt, icollective, prev>>
    /\ UNCHANGED others

\* line 264, while the requests are pending
localSolve ==
    /\ pc = "issued"
    /\ ~call.excluded
    /\ SetMach(solve(Mach, workPtr(call.work), workPtr(call.work), 1))
    /\ pc' = "solved"
    /\ UNCHANGED <<_type, _s, _co, opt, icollective, call, rq, prev>>
    /\ UNCHANGED others

\* a pending request completes; the second one delivers the coarse solution
progress(i) ==
    /\ pc \in {"issued", "solved"}
    /\ rq[i] = "pending"
    /\ rq' = [rq EXCEPT ![i] = "complete"]
    /\ _uc' = IF i = 2 THEN Esolve(_uc, call.excluded, call.fuse) ELSE _uc
    /\ UNCHANGED <<_type, _s, _co, opt, icollective, buf, log, oob, call, pc, prev>>
    /\ UNCHANGED others

\* lines 265-269
waitall ==
    /\ pc = "solved"
    /\ \A i \in 1 .. 2 : rq[i] # "pending"
    /\ SetMach(applyAdditiveJoin([Mach EXCEPT !.log = Append(@, "MPI_Waitall")],
                                 workPtr(call.work)))
    /\ rq' = NoRq
    /\ pc' = "done"
    /\ UNCHANGED <<_type, _s, _co, opt, icollective, call, prev>>
    /\ UNCHANGED others

\* line 272
wait ==
    /\ pc = "issued"
    /\ call.excluded
    /\ rq[2] # "pending"
    /\ log' = Append(log, "MPI_Wait")
    /\ rq' = [rq EXCEPT ![2] = "null"]
    /\ pc' = "done"
    /\ UNCHANGED <<_type, _s, _co, _uc, opt, icollective, buf, oob, call, prev>>
    /\ UNCHANGED others

\* the entries a call leaves in _uc are dead values for the next call, which
\* writes every entry before it reads it; _uc keeps its size
Stale(uc) == [loc |-> Leaf("uc", 0), ext |-> [j \in 1 .. Len(uc.ext) |-> Leaf("uc", j)]]

\* what is remembered of a call once it has returned
PrevOf ==
    IF call.branch = "single"
    THEN [branch |-> "single", co |-> _co, excluded |-> call.excluded,
          mu |-> call.mu, log |-> log, out |-> buf["out"].col]
    ELSE [NoPrev EXCEPT !.branch = call.branch, !.co = _co]

\* line 305: apply returns and the caller takes its vectors back
return ==
    /\ pc = "done"
    /\ pc' = "idle"
    /\ prev' = PrevOf
    /\ buf' = [p \in Ptr |-> NoBuf]
    /\ log' = <<>>
    /\ oob' = FALSE
    /\ call' = NoCall
    /\ _uc' = Stale(_uc)
    /\ UNCHANGED <<_type, _s, _co, opt, icollective, rq>>
    /\ UNCHANGED others

\* the setup: the user sets schwarz_method and calls callNumfact
NextSetup ==
    \/ \E A \in BOOLEAN : callNumfact(A)
    \/ \E v \in MethodValues : setOption("schwarz_method", v)

SpecSetup == InitSetup /\ [][NextSetup]_vars

\* the solve: apply is called again and again, schwarz_coarse_correction may
\* change and the coarse operator may be built between two calls
Next ==
    \/ \E v \in CorrectionValues : setOption("schwarz_coarse_correction", v)
    \/ buildTwo
    \/ \E excluded \in BOOLEAN, mu \in 1 .. MaxMu, work \in BOOLEAN, fuse \in 0 .. MaxFuse,
          early \in BOOLEAN : applyStart(excluded, mu, work, fuse, early)
    \/ localSolve
    \/ \E i \in 1 .. 2 : progress(i)
    \/ waitall
    \/ wait
    \/ return

Spec == Init /\ [][Next]_vars

\* ------------------------------------------------- reading a call's log
\* the bookkeeping entries of a log: buffer copies and the resize of _uc
Bookkeeping == {"copy_n", "reallocateRHS", "copy_n:out->uc", "copy_n:uc->out"}
IsKernel(e) == e \notin Bookkeeping
\* the kernels of a log, in order
Steps(l) == SelectSeq(l, IsKernel)
\* how many times e is in l
Count(l, e) == Cardinality({i \in 1 .. Len(l) : l[i] = e})
\* e is in l
Has(l, e) == \E i \in 1 .. Len(l) : l[i] = e
\* some a is in l before some b
Before(l, a, b) == \E i, j \in 1 .. Len(l) : i < j /\ l[i] = a /\ l[j] = b
\* the first n entries of l
Prefix(l, n) == SubSeq(l, 1, IF n <= Len(l) THEN n ELSE Len(l))
\* the coarse solver has been invoked
HasCoarse(l) == Has(l, "callSolver") \/ Has(l, "IcallSolver")

\* the vectors and options of the running call
Correction == opt.schwarz_coarse_correction
In(j) == Leaf("in", j)
InCols == [j \in 1 .. call.mu |-> In(j)]
Out == buf["out"]
T1(o, x) == Tm(o, 0, <<x>>)

\* ------------------------------------------------------------------- C1
\* C1: callNumfact selects the mode from the supplied matrix and
\* schwarz_method only: with a matrix, OS when schwarz_method = 1 and OG
\* otherwise; with no matrix, SY when it is 3, NO when it is 5, and GE
\* otherwise, in which case schwarz_method is rewritten to 0; in every other
\* case schwarz_method is left unchanged (and no other option is touched).
C1_callNumfactMode ==
    [][\A A \in BOOLEAN :
          callNumfact(A) =>
              LET method == opt.schwarz_method
              IN  /\ A /\ method = 1 => _type' = "OS"
                  /\ A /\ method # 1 => _type' = "OG"
                  /\ ~A /\ method = 3 => _type' = "SY"
                  /\ ~A /\ method = 5 => _type' = "NO"
                  /\ ~A /\ method \notin {3, 5} => _type' = "GE" /\ opt'.schwarz_method = 0
                  /\ A \/ method \in {3, 5} => opt'.schwarz_method = method
                  /\ opt'.schwarz_coarse_correction = opt.schwarz_coarse_correction]_vars

\* callNumfact() without a matrix has selected GE and rewritten the option
C1_Witness == _s.mat = "_a" /\ _type = "GE" /\ opt.schwarz_method = 0

\* ------------------------------------------------------------------- C2
\* C2, as claimed: in mode NO the output of apply equals its input, on every
\* process, whatever the coarse-correction strategy and whether or not a
\* coarse operator exists.
C2_Claimed == pc = "done" /\ _type = "NO" => Out.col = InCols

\* C2, amended: in mode NO the output of apply equals its input exactly, all
\* mu right-hand sides of it, on every process, when no coarse operator
\* exists or schwarz_coarse_correction is -1.
C2_NoneCopiesInput ==
    pc = "done" /\ _type = "NO" /\ (~_co \/ Correction = -1) => Out.col = InCols

\* mode NO, two right-hand sides, an excluded process, strategy -1 with a
\* coarse operator: the output is the input
C2_Witness ==
    /\ pc = "done" /\ _type = "NO" /\ _co /\ Correction = -1
    /\ call.excluded /\ call.mu = 2 /\ Out.col = <<In(1), In(2)>>

\* ------------------------------------------------------------------- C3
\* C3: apply takes the single-level branch exactly when no coarse operator
\* exists or schwarz_coarse_correction is -1; in that branch the coarse solver
\* is not invoked (and it is invoked in every other branch); and two calls in
\* that branch, in the same mode, on the same input, run the same kernels in
\* the same order and give the same output, whether the call got there for
\* want of a coarse operator or because the strategy is -1.
C3_SingleLevelBranch ==
    /\ pc # "idle" =>
          /\ call.branch = "single" <=> (~_co \/ Correction = -1)
          /\ HasCoarse(log) <=> ~(~_co \/ Correction = -1)
    /\ pc = "done" /\ call.branch = "single" /\ prev.branch = "single"
          /\ prev.excluded = call.excluded /\ prev.mu = call.mu
       => log = prev.log /\ Out.col = prev.out

\* a call with strategy -1 and a coarse operator, after the same call made
\* when there was no coarse operator, in mode OS on a non-excluded process
C3_Witness ==
    /\ pc = "done" /\ call.branch = "single" /\ _co /\ Correction = -1
    /\ prev.branch = "single" /\ ~prev.co
    /\ prev.excluded = call.excluded /\ prev.mu = call.mu
    /\ ~call.excluded /\ _type = "OS" /\ Len(log) = 4

\* ------------------------------------------------------------------- C4
\* the strategy a value of schwarz_coarse_correction selects
StrategyOf(c) ==
    IF c = -1 THEN "single" ELSE IF c = 0 THEN "deflated"
    ELSE IF c = 1 THEN "additive" ELSE "balanced"

\* what tells the strategies apart in the kernels of a non-excluded process:
\* csrmv is the residual of the deflated and balanced strategies, csrmm the
\* global product of the balanced one
StrategyOfLog(l) ==
    IF ~HasCoarse(l) THEN "single"
    ELSE IF Has(l, "csrmm") THEN "balanced"
    ELSE IF Has(l, "csrmv") THEN "deflated"
    ELSE "additive"

\* C4: with a coarse operator, each apply call runs the strategy of the value
\* schwarz_coarse_correction holds at that call: -1 the single-level branch,
\* 0 deflated, 1 overlapped-additive, 2 balanced; nothing is kept from the
\* call before, so a value changed between two calls changes the branch.
C4_StrategyReadAtCall ==
    pc = "done" /\ _co =>
        /\ call.branch = StrategyOf(Correction)
        /\ ~call.excluded => StrategyOfLog(log) = StrategyOf(Correction)

\* a balanced call right after a deflated call
C4_Witness ==
    /\ pc = "done" /\ _co /\ ~call.excluded /\ Correction = 2
    /\ prev.co /\ prev.branch = "deflated"
    /\ StrategyOfLog(log) = "balanced"

\* ------------------------------------------------------------------- C5
\* the input vector is as the caller passed it
InputIntact == buf["in"] = Buf(InCols, <<>>)

\* C5, as claimed: apply never writes to the input vector of the caller, also
\* when no work buffer is passed.
C5_Claimed == pc # "idle" => InputIntact

\* C5, amended: apply never writes to the input vector of the caller in the
\* single-level branch, on an excluded process, or when a work buffer is
\* passed: the in-place updates then go to the work buffer, which starts as a
\* copy of the dof entries of the input. When no work buffer is passed, the
\* two-level strategies of a non-excluded process apply the in-place updates
\* to the input vector of the caller itself.
C5_InputWrittenOnlyWithoutWork ==
    /\ pc # "idle" /\ (call.branch = "single" \/ call.excluded \/ call.work) => InputIntact
    /\ pc # "idle" /\ call.work /\ call.branch # "single" =>
           Has(log, "copy_n") /\ (Has(log, "solve") => buf["work"].col[1] # Leaf("work", 1))
    /\ pc = "done" /\ call.branch # "single" /\ ~call.excluded /\ ~call.work =>
           buf["in"].col[1] # In(1) /\ buf["in"].col[1].op \in {"solve", "exchange", "axpy"}

\* a deflated call with a work buffer: the residual and the local solve went
\* to the work buffer and the input is intact
C5_Witness ==
    /\ pc = "done" /\ call.branch = "deflated" /\ ~call.excluded /\ call.work
    /\ InputIntact /\ buf["work"].col[1].op = "exchange"

\* -------------------------------------------- the terms of a coarse correction
\* the fused entries the caller passed behind the dof entries of out
Fused == [j \in 1 .. call.fuse |-> Leaf("x", j)]
\* the output vector as the caller passed it
OutUntouched == [j \in 1 .. call.mu |-> Leaf("out", j)]
\* the coarse right-hand side of the input: Z^T D in, then the fused entries
CoarseRhs == <<IF call.excluded THEN Leaf("uc", 0) ELSE T1("ZT", T1("diag", In(1)))>> \o Fused
\* the coarse solution uc of the input
CoarseSolution == Tm("E", 0, CoarseRhs)
\* the coarse correction deflation leaves in out
CoarseCorrection ==
    IF _type # "AD" THEN T1("exchange", T1("diag", T1("Z", CoarseSolution)))
    ELSE T1("Z", CoarseSolution)

\* ------------------------------------------------------------------- C6
\* C6: in the asynchronous coarse correction, between the issue of the
\* non-blocking coarse solve and the join of the caller, no entry of the
\* coarse solution is read and nothing derived from it is written to the
\* output, for every fuse count and on excluded and non-excluded processes.
C6_NoReadBeforeJoin ==
    pc \in {"issued", "solved"} =>
        /\ ~Before(log, "IcallSolver", "copy_n:uc->out")
        /\ \A j \in 1 .. Len(Out.ext) : Out.ext[j].op # "E"

DeflationSteps ==
    <<"diag", "gemv_transc", "callSolver", "gemv_transa">>
        \o (IF _type # "AD" THEN <<"diag", "exchange">> ELSE <<>>)

\* the strategies that start with a call of deflation
StartsWithDeflation ==
    call.branch \in {"deflated", "balanced"} \/ (call.branch = "additive" /\ ~icollective)

\* C8: on a non-excluded process deflation runs, in this order, out <- D in,
\* uc <- Z^T out, one coarse solve, out <- Z uc, and then, if and only if the
\* mode is not AD, out <- D out and the halo exchange of out; on an excluded
\* process it only invokes the coarse solve; the coarse solve is invoked
\* once per deflation call.
C8_DeflationOrder ==
    pc = "done" /\ StartsWithDeflation =>
        IF call.excluded
        THEN Steps(log) = <<"callSolver">> /\ Out.col = OutUntouched
        ELSE LET n == Len(DeflationSteps)
                 k == Steps(log)
             IN  /\ Len(k) > n
                 /\ SubSeq(k, 1, n) = DeflationSteps
                 /\ k[n + 1] \in {"csrmv", "solve"}
                 /\ call.branch = "deflated" =>
                        /\ Count(log, "callSolver") = 1
                        /\ Out.col[1].args[2] = CoarseCorrection
                 /\ call.branch = "additive" =>
                        /\ Count(log, "callSolver") = 1
                        /\ Out.col[1].args[1].args[1].args[2] = CoarseCorrection
                 /\ call.branch = "balanced" =>
                        /\ Count(log, "callSolver") = 2
                        /\ \E i \in 1 .. Len(k) :
                              /\ SubSeq(k, i, i + 2) = <<"csrmm", "diag", "exchange">>
                              /\ SubSeq(k, i + 3, i + 2 + n) = DeflationSteps
                              /\ k[i + 3 + n] = "axpy"

\* a deflated call in mode AD on a non-excluded process: the correction is
\* Z uc, neither scaled nor exchanged
C8_Witness ==
    /\ pc = "done" /\ call.branch = "deflated" /\ ~call.excluded /\ _type = "AD"
    /\ Out.col[1].args[2] = T1("Z", CoarseSolution)

\* ------------------------------------------------------------------- C9
\* the strategies that call deflation once, on the output vector
OneDeflation == call.branch = "deflated" \/ (call.branch = "additive" /\ ~icollective)

\* C9: with fuse > 0 deflation copies the fuse entries behind the dof entries
\* of out into the coarse right-hand side, behind the local coarse entries,
\* before the coarse solve, and copies the solved entries back to the same
\* place after it; no local step overwrites them in between; this holds on
\* excluded and non-excluded processes. With fuse = 0 the coarse right-hand
\* side is not resized and nothing behind the dof entries of out is touched.
C9_FusedEntries ==
    pc = "done" /\ OneDeflation =>
        IF call.fuse > 0
        THEN /\ Out.ext = [j \in 1 .. call.fuse |-> Tm("E", j, CoarseRhs)]
             /\ _uc.ext = Out.ext
             /\ Count(log, "reallocateRHS") = 1
             /\ Count(log, "copy_n:out->uc") = 1
             /\ Count(log, "copy_n:uc->out") = 1
             /\ Before(log, "reallocateRHS", "copy_n:out->uc")
             /\ Before(log, "copy_n:out->uc", "callSolver")
             /\ Before(log, "callSolver", "copy_n:uc->out")
             /\ ~oob
        ELSE /\ ~Has(log, "reallocateRHS")
             /\ ~Has(log, "copy_n:out->uc")
             /\ ~Has(log, "copy_n:uc->out")
             /\ _uc.ext = Stale(_uc).ext
             /\ Out.ext = <<>>
             /\ ~oob

\* a deflated call with two fused entries on an excluded process
C9_Witness ==
    /\ pc = "done" /\ call.branch = "deflated" /\ call.excluded /\ call.fuse = 2
    /\ Out.ext = <<Tm("E", 1, <<Leaf("uc", 0), Leaf("x", 1), Leaf("x", 2)>>),
                   Tm("E", 2, <<Leaf("uc", 0), Leaf("x", 1), Leaf("x", 2)>>)>>

\* ------------------------------------------------------------------ C10
\* the residual r = in - A c of the deflated strategy
Residual == Tm("csrmv", -1, <<CoarseCorrection, In(1)>>)

\* C10, as claimed: in the deflated strategy a non-excluded process computes
\* the coarse correction c, forms r = in - A c, scales and exchanges r, solves
\* locally, scales and exchanges again and returns out = c + that result,
\* with no other scaling step in any mode; the coarse solve is invoked once.
C10_Claimed ==
    pc = "done" /\ call.branch = "deflated" /\ ~call.excluded =>
        /\ Steps(log) = DeflationSteps
               \o <<"csrmv", "diag", "exchange", "solve", "diag", "exchange", "axpy">>
        /\ Count(log, "callSolver") = 1
        /\ Out.col[1] = Tm("axpy", 1,
              <<T1("exchange", T1("diag", T1("solve", T1("exchange", T1("diag", Residual))))),
                CoarseCorrection>>)

\* C10, amended: as claimed, but in mode OS the scaled and exchanged residual
\* is scaled once more right before the local solve; in every other mode
\* there is no other scaling step.
C10_Deflated ==
    pc = "done" /\ call.branch = "deflated" /\ ~call.excluded =>
        LET r == T1("exchange", T1("diag", Residual))
            pre == IF _type = "OS" THEN T1("diag", r) ELSE r
        IN  /\ Steps(log) = DeflationSteps
                   \o <<"csrmv", "diag", "exchange">>
                   \o (IF _type = "OS" THEN <<"diag">> ELSE <<>>)
                   \o <<"solve", "diag", "exchange", "axpy">>
            /\ Count(log, "callSolver") = 1
            /\ Out.col[1] = Tm("axpy", 1,
                  <<T1("exchange", T1("diag", T1("solve", pre))), CoarseCorrection>>)

\* a deflated call in mode OS on a non-excluded process
C10_Witness ==
    /\ pc = "done" /\ call.branch = "deflated" /\ ~call.excluded /\ _type = "OS"
    /\ Count(Steps(log), "diag") = 5

\* ------------------------------------------------------------------ C11
\* w of the deflated and balanced strategies: the local solve of the scaled
\* and exchanged residual, scaled and exchanged
LocalResult ==
    LET r == T1("exchange", T1("diag", Residual))
    IN  T1("exchange", T1("diag", T1("solve", IF _type = "OS" THEN T1("diag", r) ELSE r)))
\* the global operator applied to x: GMV
GlobalProduct(x) == T1("exchange", T1("diag", T1("csrmm", x)))
\* the entries deflation reads behind the dof entries of the temporary vector
TmpFused == [j \in 1 .. call.fuse |-> Leaf("oob", j)]
\* the coarse correction deflation computes in place of x
CoarseCorrectionOf(x, fused) ==
    LET u == Tm("E", 0, <<T1("ZT", T1("diag", x))>> \o fused)
    IN  IF _type # "AD" THEN T1("exchange", T1("diag", T1("Z", u))) ELSE T1("Z", u)

\* C11, as claimed: in the balanced strategy, with w the scaled and exchanged
\* local solve, apply forms t = (global operator applied to w) minus the
\* coarse correction of that product, scales t by -2 and adds it into w
\* before the final combination out = c + w.
C11_Claimed ==
    pc = "done" /\ call.branch = "balanced" /\ ~call.excluded =>
        LET P == GlobalProduct(LocalResult)
            t == Tm("axpy", -1, <<CoarseCorrectionOf(P, TmpFused), P>>)
        IN  Out.col[1] = Tm("axpy", 1, <<Tm("axpy", -2, <<t, LocalResult>>), CoarseCorrection>>)

\* C11, amended: in the balanced strategy, with w the scaled and exchanged
\* local solve, apply forms t = the coarse correction of (global operator
\* applied to w), the product itself being overwritten and not kept, and
\* subtracts it from w (w <- w - t) before the final combination
\* out = c + w; every other step is the same as in the deflated strategy.
C11_Balanced ==
    pc = "done" /\ call.branch = "balanced" /\ ~call.excluded =>
        LET t == CoarseCorrectionOf(GlobalProduct(LocalResult), TmpFused)
        IN  /\ Steps(log) = DeflationSteps
                   \o <<"csrmv", "diag", "exchange">>
                   \o (IF _type = "OS" THEN <<"diag">> ELSE <<>>)
                   \o <<"solve", "diag", "exchange">>
                   \o <<"csrmm", "diag", "exchange">> \o DeflationSteps \o <<"axpy">>
                   \o <<"axpy">>
            /\ Out.col[1] = Tm("axpy", 1, <<Tm("axpy", -1, <<t, LocalResult>>),
                                            CoarseCorrection>>)

\* a balanced call in mode GE on a non-excluded process, one right-hand side
\* and no fused entry: the coarse solver ran twice and w - t was formed
C11_Witness ==
    /\ pc = "done" /\ call.branch = "balanced" /\ ~call.excluded /\ _type = "GE"
    /\ call.mu = 1 /\ call.fuse = 0 /\ Count(log, "callSolver") = 2
    /\ Out.col[1].args[1].op = "axpy" /\ Out.col[1].args[1].k = -1

\* ---------------------------------------------------- multiplicityScaling
\* The weights are exact rationals <<numerator, denominator>>, denominator > 0,
\* in lowest terms.
Abs(x) == IF x < 0 THEN -x ELSE x

RECURSIVE GCD(_, _)
GCD(a, b) == IF b = 0 THEN a ELSE GCD(b, a % b)

Rat(n, m) ==
    LET g == GCD(Abs(n), Abs(m))
        sg == IF m < 0 THEN -1 ELSE 1
    IN  IF g = 0 THEN <<n, m>> ELSE <<sg * (n \div g), sg * (m \div g)>>

RAdd(a, b) == Rat(a[1] * b[2] + b[1] * a[2], a[2] * b[2])
RMul(a, b) == Rat(a[1] * b[1], a[2] * b[2])
RDiv(a, b) == Rat(a[1] * b[2], a[2] * b[1])
RAbs(a) == <<Abs(a[1]), a[2]>>
RLess(a, b) == a[1] * b[2] < b[1] * a[2]
RZero == <<0, 1>>
ROne == <<1, 1>>

\* HPDDM_EPS: smaller than every nonzero value the subdomains hold
HPDDM_EPS == <<1, 1000>>

\* what a weight can be on entry: 0 .. MaxVal
MaxVal == 2
\* three subdomains: the smallest decomposition in which an unknown is
\* shared with several neighbors
Sub == {1, 2, 3}
EntryValues == {<<v, 1>> : v \in 0 .. MaxVal}

\* a set of ranks as the sequence of its elements, in increasing order
RECURSIVE Ranked(_)
Ranked(S) ==
    IF S = {} THEN <<>>
    ELSE LET x == CHOOSE x \in S : \A y \in S : x <= y
         IN  <<x>> \o Ranked(S \ {x})

\* every subdomain has two unknowns; the first one of the subdomains of S is
\* the same unknown of the mesh, every other unknown is interior
MapOf(S, p) ==
    IF p \in S THEN [i \in 1 .. Cardinality(S \ {p}) |->
                        [first |-> Ranked(S \ {p})[i], second |-> <<1>>]]
    ELSE <<>>

\* the place of neighbor q in the map of p
PlaceOf(p, q) == CHOOSE i \in 1 .. Len(_map[p]) : _map[p][i].first = q

\* Wrapper::gthr(n, d, send, index): send[j] = d[index[j]]
gthr(dd, index) == [j \in 1 .. Len(index) |-> dd[index[j]]]

\* snapshot taking the weights after they have been reset
scalingSnapshot_afterFill(dd, map) ==
    [i \in 1 .. Len(map) |-> gthr([k \in 1 .. Len(dd) |-> ROne], map[i].second)]

\* lines 111-117: the send buffers the first loop fills
scalingSnapshot(dd, map) == [i \in 1 .. Len(map) |-> gthr(dd, map[i].second)]

\* line 118
scalingFill(dd) == [k \in 1 .. Len(dd) |-> ROne]

\* the rule with the degenerate test dropped: the weight is left as it is
scalingRule_noZero(w, send, recv) ==
    IF RLess(RAbs(send), HPDDM_EPS) THEN w
    ELSE RDiv(w, RAdd(ROne, RDiv(RMul(w, recv), send)))

\* the rule assigning the quotient of 1 instead of dividing the weight
scalingRule_assign(w, send, recv) ==
    IF RLess(RAbs(send), HPDDM_EPS) THEN RZero
    ELSE RDiv(ROne, RAdd(ROne, RDiv(RMul(w, recv), send)))

\* the rule without the weight in the denominator
scalingRule_noWeight(w, send, recv) ==
    IF RLess(RAbs(send), HPDDM_EPS) THEN RZero
    ELSE RDiv(w, RAdd(ROne, RDiv(recv, send)))

\* lines 125-128: the rule applied to one weight
scalingRule(w, send, recv) ==
    IF RLess(RAbs(send), HPDDM_EPS) THEN RZero
    ELSE RDiv(w, RAdd(ROne, RDiv(RMul(w, recv), send)))

\* lines 124-129: the loop over the indices shared with one neighbor
RECURSIVE scalingLoop(_, _, _, _, _)
scalingLoop(dd, index, send, recv, j) ==
    IF j > Len(index) THEN dd
    ELSE scalingLoop([dd EXCEPT ![index[j]] = scalingRule(dd[index[j]], send[j], recv[j])],
                     index, send, recv, j + 1)

\* one process per subdomain is about to call multiplicityScaling
InitScaling ==
    /\ \E S \in SUBSET Sub :
          /\ _map = [p \in Sub |-> MapOf(S, p)]
          /\ entry \in [Sub -> [1 .. 2 -> EntryValues]]
          /\ \A p \in Sub : entry[p][2] = <<MaxVal, 1>> /\ (p \notin S => entry[p][1] = <<MaxVal, 1>>)
    /\ _d = entry
    /\ _sbuff = [p \in Sub |-> [i \in 1 .. Len(_map[p]) |-> <<>>]]
    /\ _rbuff = [p \in Sub |-> [i \in 1 .. Len(_map[p]) |-> <<>>]]
    /\ _rq = [p \in Sub |-> [i \in 1 .. 2 * Len(_map[p]) |-> "null"]]
    /\ spc = [p \in Sub |-> "entry"]
    /\ order = [p \in Sub |-> <<>>]
    /\ NoApply /\ NoGEVP /\ NoError /\ NoOverlap

\* lines 111-118: the receives and the sends are posted, the send buffers
\* filled, and the weights reset
scalingPost(p) ==
    /\ spc[p] = "entry"
    /\ _sbuff' = [_sbuff EXCEPT ![p] = scalingSnapshot(_d[p], _map[p])]
    /\ _rq' = [_rq EXCEPT ![p] = [i \in 1 .. 2 * Len(_map[p]) |-> "pending"]]
    /\ _d' = [_d EXCEPT ![p] = scalingFill(_d[p])]
    /\ spc' = [spc EXCEPT ![p] = "posted"]
    /\ UNCHANGED <<_map, _rbuff, entry, order, applyVars, gevpVars, errorVars, overlapVars>>

\* lines 120-129: MPI_Waitany returns the receive index, whose sender has
\* posted its send, and the weights of the shared indices are updated; the
\* send of the neighbor is complete once its message is received
scalingWaitany(p, index) ==
    /\ spc[p] = "posted"
    /\ index \in 1 .. Len(_map[p])
    /\ _rq[p][index] = "pending"
    /\ LET q == _map[p][index].first
           n == Len(_map[q])
           i == PlaceOf(q, p)
           recv == _sbuff[q][i]
       IN  /\ spc[q] # "entry"
           /\ _rbuff' = [_rbuff EXCEPT ![p][index] = recv]
           /\ _rq' = [_rq EXCEPT ![p][index] = "null", ![q][n + i] = "complete"]
           /\ _d' = [_d EXCEPT ![p] = scalingLoop(_d[p], _map[p][index].second,
                                                 _sbuff[p][index], recv, 1)]
    /\ order' = [order EXCEPT ![p] = Append(@, index)]
    /\ UNCHANGED <<_map, _sbuff, spc, entry, applyVars, gevpVars, errorVars, overlapVars>>

\* the loop of line 119 has run _map.size() times
scalingLoopOver(p) == Len(order[p]) = Len(_map[p])

\* line 131: MPI_Waitall on the sends, and the return
scalingWaitall(p) ==
    /\ spc[p] = "posted"
    /\ scalingLoopOver(p)
    /\ \A i \in 1 .. Len(_map[p]) : _rq[p][Len(_map[p]) + i] = "complete"
    /\ _rq' = [_rq EXCEPT ![p] = [i \in 1 .. 2 * Len(_map[p]) |-> "null"]]
    /\ spc' = [spc EXCEPT ![p] = "returned"]
    /\ UNCHANGED <<_d, _map, _sbuff, _rbuff, entry, order, applyVars, gevpVars, errorVars, overlapVars>>

NextScaling ==
    \/ \E p \in Sub : scalingPost(p)
    \/ \E p \in Sub, index \in 1 .. Cardinality(Sub) - 1 : scalingWaitany(p, index)
    \/ \E p \in Sub : scalingWaitall(p)

SpecScaling == InitScaling /\ [][NextScaling]_vars

\* ------------------------------------------------------------------ C12
\* the subdomains that share the first unknown with a neighbor
Sharing == {p \in Sub : Len(_map[p]) > 0}
\* a value is degenerate
Degenerate(v) == RLess(RAbs(v), HPDDM_EPS)
\* the sum of the weights of the first unknown on the subdomains of S
RECURSIVE WeightSum(_)
WeightSum(S) ==
    IF S = {} THEN RZero
    ELSE LET p == CHOOSE p \in S : TRUE IN RAdd(_d[p][1], WeightSum(S \ {p}))

\* C12: for an unknown shared between subdomains whose snapshot values are
\* all non-degenerate (at least epsilon, same sign), with pairwise consistent
\* neighbor maps, the weights multiplicityScaling computes on the subdomains
\* that share it sum to 1, once it has returned on all of them; in particular
\* for two subdomains sharing one index.
C12_WeightsSumToOne ==
    /\ Sharing # {}
    /\ \A p \in Sharing : spc[p] = "returned" /\ ~Degenerate(entry[p][1])
    => WeightSum(Sharing) = ROne

\* three subdomains share the unknown, with snapshot values 1, 2 and 2: the
\* weights are 1/5, 2/5 and 2/5
C12_Witness ==
    /\ Sharing = Sub /\ \A p \in Sub : spc[p] = "returned"
    /\ entry[1][1] = <<1, 1>> /\ entry[2][1] = <<2, 1>> /\ entry[3][1] = <<2, 1>>
    /\ _d[1][1] = <<1, 5>> /\ _d[2][1] = <<2, 5>> /\ _d[3][1] = <<2, 5>>

\* ------------------------------------------------------------------ C13
\* the index k of subdomain p is shared with a neighbor
Shared(p, k) ==
    \E i \in 1 .. Len(_map[p]) : \E j \in 1 .. Len(_map[p][i].second) :
        _map[p][i].second[j] = k

HPDDM_PEN == <<100000, 1>>

\* how many eigenvectors the caller can request: 0 .. MaxNu
MaxNu == 2
\* the entries of an eigenvector: zero, below the threshold of line 377, the
\* threshold itself, and above it
EvValues == {RZero, <<-1, 200>>, <<1, 100>>, ROne}
\* a vector of dof entries, here two
EvVectors == [1 .. 2 -> EvValues]

\* the eigen-solver: it achieves at most what was requested, and leaves as
\* many vectors as were requested
EpsSolve(requested) ==
    [nu : 0 .. requested, ev : [1 .. requested -> EvVectors]]

\* the test pruning the entries up to the threshold included
pruned_inclusive(x) == ~RLess(RDiv(ROne, RMul(HPDDM_EPS, HPDDM_PEN)), RAbs(x))

\* line 377, the test of std::replace_if
pruned(x) == RLess(RAbs(x), RDiv(ROne, RMul(HPDDM_EPS, HPDDM_PEN)))

\* line 377, std::replace_if on one vector
replace_if(v) == [i \in 1 .. Len(v) |-> IF pruned(v[i]) THEN RZero ELSE v[i]]

\* line 377, std::for_each over the first n vectors
for_each(ev, n) == [k \in 1 .. Len(ev) |-> IF k <= n THEN replace_if(ev[k]) ELSE ev[k]]

\* the caller is about to call solveGEVP with nu vectors requested, the
\* option holding what the user asked for
InitGEVP ==
    /\ nu \in 0 .. MaxNu
    /\ geneo_nu \in 0 .. MaxNu
    /\ _ev = <<>>
    /\ evp = <<>>
    /\ gpc = "entry"
    /\ NoApply /\ NoScaling /\ NoError /\ NoOverlap

\* lines 361-377
solveGEVP(B, free) ==
    /\ gpc = "entry"
    /\ \E r \in EpsSolve(nu) :
          /\ evp' = [requested |-> nu, nu |-> r.nu, ev |-> r.ev,
                     rhs |-> IF B THEN "B" ELSE "scaleIntoOverlap",
                     s |-> IF free THEN "_s" ELSE "nullptr",
                     A_ia |-> IF free THEN "nullptr" ELSE "kept"]
          /\ nu' = r.nu
          /\ geneo_nu' = r.nu
          /\ _ev' = for_each(r.ev, r.nu)
    /\ gpc' = "returned"
    /\ UNCHANGED <<applyVars, scalingVars, errorVars, overlapVars>>

NextGEVP == \E B \in BOOLEAN, free \in BOOLEAN : solveGEVP(B, free)

SpecGEVP == InitGEVP /\ [][NextGEVP]_vars

\* ------------------------------------------------------------------ C14
\* C14: after solveGEVP returns, the nu of the caller and the option geneo_nu
\* both equal the count the eigen-solver achieved, that count is never larger
\* than the requested count, and in each of the first nu vectors every entry
\* whose magnitude is below the pruning threshold is exactly zero while every
\* other entry is unchanged.
C14_AchievedCountAndPruning ==
    gpc = "returned" =>
        /\ nu = evp.nu /\ geneo_nu = evp.nu
        /\ nu <= evp.requested
        /\ \A k \in 1 .. nu : \A i \in 1 .. Len(_ev[k]) :
              IF RLess(RAbs(evp.ev[k][i]), <<1, 100>>)
              THEN _ev[k][i] = RZero
              ELSE _ev[k][i] = evp.ev[k][i]

\* two vectors requested with the option at 0, one achieved: its entry below
\* the threshold is zeroed, its entry at the threshold is kept
C14_Witness ==
    /\ gpc = "returned" /\ evp.requested = 2 /\ nu = 1 /\ geneo_nu = 1
    /\ evp.ev[1] = <<(<<-1, 200>>), (<<1, 100>>)>>
    /\ _ev[1] = <<RZero, (<<1, 100>>)>>

\* ----------------------------------------------------------- computeError
\* HPDDM_EPS * HPDDM_PEN
EpsPen == RMul(HPDDM_EPS, HPDDM_PEN)

\* the entries of the local matrix, of two rows: a diagonal is 1, ordinary or
\* penalized; an off-diagonal entry is negligible or ordinary
DiagValues == {ROne, <<2, 1>>, HPDDM_PEN}
OffValues == {<<1, 2000>>, <<2, 1>>}
\* a right-hand side value is ordinary or that of a penalized row
FValues == {ROne, HPDDM_PEN}

\* the matrix in CSR form: with _sym only the lower triangle is stored
MatrixCSR(sym, a11, a12, a21, a22) ==
    [_sym |-> sym,
     rows |-> <<IF sym THEN <<[ja |-> 1, a |-> a11]>>
                       ELSE <<[ja |-> 1, a |-> a11], [ja |-> 2, a |-> a12]>>,
                <<[ja |-> 1, a |-> a21], [ja |-> 2, a |-> a22]>>>>]

\* lines 424-427: how many stored entries of row i come before stop
stop(A, i) ==
    IF ~A._sym THEN Cardinality({j \in 1 .. Len(A.rows[i]) : A.rows[i][j].ja <= i})
    ELSE Len(A.rows[i])

\* line 428: the row is passed over
penalized(A, i) == RLess(EpsPen, RAbs(A.rows[i][stop(A, i)].a))

\* lines 430-435: isBoundaryCond after the loop over the entries before stop
isBoundaryCond(A, i) ==
    \A j \in 1 .. stop(A, i) :
        LET e == A.rows[i][j]
        IN  /\ ~(e.ja # i /\ RLess(HPDDM_EPS, RAbs(e.a)))
            /\ ~(e.ja = i /\ RLess(HPDDM_EPS, RAbs(RAdd(e.a, <<-1, 1>>))))

\* d[i] * std::norm(t) of row i, as what is added to an entry of storage
Term(i, t) == [row |-> i, term |-> t]

\* lines 436-443: what row i adds to storage, for the mu right-hand sides
accumulate(st, A, ff, i, mu) ==
    [n \in 1 .. 2 * mu |->
        LET r == (n + 1) \div 2
        IN  IF n % 2 = 0
            THEN IF ~isBoundaryCond(A, i) THEN st[n] \cup {Term(i, "tmp")} ELSE st[n]
            ELSE IF RLess(EpsPen, RAbs(ff[r][i])) THEN st[n] \cup {Term(i, "f/HPDDM_PEN")}
                 ELSE st[n] \cup {Term(i, "f")}]

\* the caller is about to call computeError
InitError ==
    /\ \E sym \in BOOLEAN, a11 \in DiagValues, a22 \in DiagValues, a21 \in OffValues :
          \E a12 \in (IF sym THEN {a21} ELSE OffValues) :
              _a = MatrixCSR(sym, a11, a12, a21, a22)
    /\ \E mu \in 1 .. MaxMu : f \in [1 .. mu -> [1 .. 2 -> FValues]]
    /\ storage = <<>>
    /\ row = 0
    /\ boundary = <<>>
    /\ epc = "entry"
    /\ NoApply /\ NoScaling /\ NoGEVP /\ NoOverlap

\* lines 416-420: tmp = A x - f, and storage is zeroed
computeErrorBegin ==
    /\ epc = "entry"
    /\ storage' = [n \in 1 .. 2 * Len(f) |-> {}]
    /\ row' = 1
    /\ epc' = "rows"
    /\ UNCHANGED <<_a, f, boundary, applyVars, scalingVars, gevpVars, overlapVars>>

\* lines 421-444: one row of the loop
computeErrorRow ==
    /\ epc = "rows"
    /\ row <= Len(_a.rows)
    /\ IF penalized(_a, row)
       THEN /\ storage' = storage
            /\ boundary' = Append(boundary, "continue")
       ELSE /\ storage' = accumulate(storage, _a, f, row, Len(f))
            /\ boundary' = Append(boundary, IF isBoundaryCond(_a, row) THEN "boundary"
                                                                        ELSE "interior")
    /\ row' = row + 1
    /\ UNCHANGED <<_a, f, epc, applyVars, scalingVars, gevpVars, overlapVars>>

\* lines 445-447: the sums are reduced over the processes, then rooted
computeErrorEnd ==
    /\ epc = "rows"
    /\ row > Len(_a.rows)
    /\ epc' = "returned"
    /\ UNCHANGED <<_a, f, storage, row, boundary, applyVars, scalingVars, gevpVars, overlapVars>>

NextError ==
    \/ computeErrorBegin
    \/ computeErrorRow
    \/ computeErrorEnd

SpecError == InitError /\ [][NextError]_vars

\* ------------------------------------------------------------------ C15
\* the off-diagonal entries of row i of the matrix, and its diagonal
OffDiagonal(i) ==
    {_a.rows[i][j].a : j \in {j \in 1 .. Len(_a.rows[i]) : _a.rows[i][j].ja # i}}
        \cup (IF _a._sym
              THEN UNION {{_a.rows[k][j].a : j \in {j \in 1 .. Len(_a.rows[k]) :
                                                      _a.rows[k][j].ja = i}} :
                          k \in 1 .. Len(_a.rows) \ {i}}
              ELSE {})
Diagonal(i) ==
    _a.rows[i][CHOOSE j \in 1 .. Len(_a.rows[i]) : _a.rows[i][j].ja = i].a
\* all the off-diagonal entries of row i are negligible and its diagonal is
\* within tolerance of 1
BoundaryRow(i) ==
    /\ \A v \in OffDiagonal(i) : ~RLess(HPDDM_EPS, RAbs(v))
    /\ ~RLess(HPDDM_EPS, RAbs(RAdd(Diagonal(i), <<-1, 1>>)))
\* the entries of storage of the right-hand side r: its right-hand-side sum
\* and its residual sum
RhsSum(r) == storage[2 * r - 1]
ResidualSum(r) == storage[2 * r]

\* C15: in computeError a row is a boundary row exactly when all its
\* off-diagonal entries are negligible and its diagonal is within tolerance
\* of 1; a boundary row adds nothing to the residual sum and adds its weighted
\* right-hand-side value divided by the penalty constant to the
\* right-hand-side sum; every other row adds its weighted raw right-hand-side
\* value to the right-hand-side sum and its weighted residual to the residual
\* sum; no row is left out of the right-hand-side sum.
C15_Claimed ==
    epc = "returned" =>
        \A i \in 1 .. Len(_a.rows) : \A r \in 1 .. Len(f) :
            /\ boundary[i] = "boundary" <=> BoundaryRow(i)
            /\ \E t \in RhsSum(r) : t.row = i
            /\ IF BoundaryRow(i)
               THEN /\ Term(i, "f/HPDDM_PEN") \in RhsSum(r)
                    /\ Term(i, "tmp") \notin ResidualSum(r)
               ELSE /\ Term(i, "f") \in RhsSum(r)
                    /\ Term(i, "tmp") \in ResidualSum(r)

\* ------------------------------------------------------------------ C16
\* C16, as claimed: in the single-level branch, on an excluded process apply
\* runs no local solve, no scaling and no halo exchange and leaves the output
\* vector unchanged, in every mode.
C16_Claimed ==
    pc = "done" /\ call.branch = "single" /\ call.excluded =>
        Steps(log) = <<>> /\ Out.col = OutUntouched

\* C16, amended: in the single-level branch, on an excluded process apply
\* runs no local solve, no scaling and no halo exchange in every mode, and
\* leaves the output vector unchanged in every mode but NO; in mode NO it
\* copies the input to the output as on every other process.
C16_ExcludedSingleLevel ==
    pc = "done" /\ call.branch = "single" /\ call.excluded =>
        /\ Steps(log) = <<>>
        /\ IF _type = "NO" THEN Out.col = InCols /\ log = <<"copy_n">>
           ELSE Out.col = OutUntouched /\ log = <<>>
        /\ Out.ext = Fused

\* a single-level call in mode OG on an excluded process, two right-hand
\* sides: nothing ran and the output is as the caller passed it
C16_Witness ==
    /\ pc = "done" /\ call.branch = "single" /\ call.excluded /\ _type = "OG"
    /\ call.mu = 2 /\ log = <<>> /\ Out.col = <<Leaf("out", 1), Leaf("out", 2)>>

\* ------------------------------------------------------------------ C17
\* the kernels o1, then o2, ... applied to every right-hand side of the input
RECURSIVE Chain(_, _)
Chain(ops, x) == IF ops = <<>> THEN x ELSE Chain(Tail(ops), T1(Head(ops), x))
Applied(ops) == [j \in 1 .. call.mu |-> Chain(ops, In(j))]

\* C17: in the single-level branch on a non-excluded process, modes GE and OG
\* run local solve, scale, exchange; mode OS runs scale, local solve, scale,
\* exchange; mode SY runs local solve then exchange, with no scaling.
C17_SingleLevelSteps ==
    pc = "done" /\ call.branch = "single" /\ ~call.excluded =>
        /\ _type \in {"GE", "OG"} =>
              log = <<"solve", "diag", "exchange">> /\ Out.col = Applied(log)
        /\ _type = "OS" =>
              log = <<"diag", "solve", "diag", "exchange">> /\ Out.col = Applied(log)
        /\ _type = "SY" =>
              log = <<"solve", "exchange">> /\ Out.col = Applied(log)

\* a single-level call in mode SY on a non-excluded process, two right-hand
\* sides, with a coarse operator and strategy -1
C17_Witness ==
    /\ pc = "done" /\ call.branch = "single" /\ ~call.excluded /\ _type = "SY"
    /\ _co /\ call.mu = 2
    /\ Out.col = <<T1("exchange", T1("solve", In(1))), T1("exchange", T1("solve", In(2)))>>

\* ------------------------------------------------------------------ C18
\* the call scales before its local solve, and after it
ScalesBefore == Before(log, "diag", "solve")
ScalesAfter == Before(log, "solve", "diag")

\* C18, as claimed: around the local solve of the single-level branch, modes
\* OS and OG scale before and after the solve, and modes SY and GE scale only
\* after the solve.
C18_Claimed ==
    pc = "done" /\ call.branch = "single" /\ ~call.excluded =>
        /\ _type \in {"OS", "OG"} => ScalesBefore /\ ScalesAfter
        /\ _type \in {"SY", "GE"} => ~ScalesBefore /\ ScalesAfter

\* C18, amended: around the local solve of the single-level branch, mode OS
\* scales before and after the solve, modes GE and OG scale only after the
\* solve, and mode SY does not scale.
C18_ScalingAroundSolve ==
    pc = "done" /\ call.branch = "single" /\ ~call.excluded /\ Has(log, "solve") =>
        /\ _type = "OS" => ScalesBefore /\ ScalesAfter /\ Count(log, "diag") = 2
        /\ _type \in {"GE", "OG"} => ~ScalesBefore /\ ScalesAfter /\ Count(log, "diag") = 1
        /\ _type = "SY" => ~Has(log, "diag")
        /\ Count(log, "solve") = 1

\* a single-level call in mode OG on a non-excluded process: one scaling,
\* after the solve
C18_Witness ==
    /\ pc = "done" /\ call.branch = "single" /\ ~call.excluded /\ _type = "OG"
    /\ Count(log, "diag") = 1 /\ ScalesAfter /\ ~ScalesBefore

\* ------------------------------------------------------------------ C19
\* the weights of subdomain p when the receives complete in the order of the
\* neighbor map
RECURSIVE InMapOrder(_, _, _)
InMapOrder(p, dd, i) ==
    IF i > Len(_map[p]) THEN dd
    ELSE LET q == _map[p][i].first
             send == gthr(entry[p], _map[p][i].second)
             recv == gthr(entry[q], _map[q][PlaceOf(q, p)].second)
         IN  InMapOrder(p, scalingLoop(dd, _map[p][i].second, send, recv, 1), i + 1)

\* C19: the weights multiplicityScaling returns are the same for every order
\* in which the posted receives complete, also when an index is shared with
\* several neighbors and when sent values are degenerate: they are the
\* weights of the completion order 0, 1, ..., _map.size() - 1.
C19_OrderIndependent ==
    \A p \in Sub : spc[p] = "returned" => _d[p] = InMapOrder(p, scalingFill(entry[p]), 1)

\* subdomain 1 has returned after its second receive completed before its
\* first one; its neighbors sent 2 and a degenerate value
C19_Witness ==
    /\ spc[1] = "returned" /\ order[1] = <<2, 1>>
    /\ entry[1][1] = <<1, 1>> /\ entry[2][1] = <<2, 1>> /\ entry[3][1] = RZero
    /\ _d[1][1] = <<1, 3>>

\* ------------------------------------------------------------------ C20
\* how many times index i is in the sequence o
Times(o, i) == Cardinality({n \in 1 .. Len(o) : o[n] = i})
\* the entry values of subdomain p at the indices it shares with its neighbor i
EntrySnapshot(p, i) ==
    [j \in 1 .. Len(_map[p][i].second) |-> entry[p][_map[p][i].second[j]]]

\* C20: multiplicityScaling fills the send buffer of each neighbor with the
\* weights as they were on entry, before it resets the weights to 1,
\* processes each posted receive exactly once, and returns only after every
\* posted receive and every posted send has completed: no request is
\* outstanding and no send buffer is in flight on return.
C20_SnapshotAndCompletion ==
    \A p \in Sub :
        /\ spc[p] # "entry" =>
              /\ \A i \in 1 .. Len(_map[p]) : _sbuff[p][i] = EntrySnapshot(p, i)
              /\ spc[p] = "posted" /\ order[p] = <<>> => \A k \in 1 .. Len(_d[p]) : _d[p][k] = ROne
        /\ \A i \in 1 .. Len(_map[p]) : Times(order[p], i) <= 1
        /\ spc[p] = "returned" =>
              /\ \A i \in 1 .. Len(_map[p]) :
                    /\ Times(order[p], i) = 1
                    /\ _rbuff[p][i] = EntrySnapshot(_map[p][i].first,
                                                    PlaceOf(_map[p][i].first, p))
                    /\ Times(order[_map[p][i].first], PlaceOf(_map[p][i].first, p)) = 1
              /\ \A i \in 1 .. Len(_rq[p]) : _rq[p][i] = "null"

\* subdomain 1 has returned, with two neighbors, one of which has not
\* returned yet; its snapshot was the value 2 it held on entry
C20_Witness ==
    /\ spc[1] = "returned" /\ Len(_map[1]) = 2 /\ spc[2] = "posted"
    /\ entry[1][1] = <<2, 1>> /\ _sbuff[1] = <<<<(<<2, 1>>)>>, <<(<<2, 1>>)>>>>
    /\ _d[1][1] # ROne

\* ------------------------------------------------------------------ C22
\* what the balanced strategy passes GMV is w; what GMV leaves in the
\* temporary vector is what deflation then scales and projects: the argument
\* of the scaling under Z^T in the coarse correction subtracted from w
GMVResult ==
    LET t == Out.col[1].args[1].args[1]
        z == IF _type # "AD" THEN t.args[1].args[1] ELSE t
    IN  z.args[1].args[1].args[1].args[1]
\* the kernels GMV ran: from the sparse product to the end of the call of GMV
GMVSteps ==
    LET k == Steps(log)
        i == CHOOSE n \in 1 .. Len(k) : k[n] = "csrmm"
    IN  <<k[i - 1], k[i], k[i + 1], k[i + 2]>>

\* C22, as claimed: GMV applies the diagonal scaling to its input before the
\* sparse product, applies it again to the result after the product, and then
\* performs the halo exchange, in that order.
C22_Claimed ==
    pc = "done" /\ call.branch = "balanced" /\ ~call.excluded =>
        /\ GMVSteps = <<"diag", "csrmm", "diag", "exchange">>
        /\ GMVResult = T1("exchange", T1("diag", T1("csrmm", T1("diag", LocalResult))))

\* C22, amended: GMV runs the sparse product on its input as it is passed,
\* not scaled, then applies the diagonal scaling to the result of the product,
\* and then performs the halo exchange of the result, in that order; the
\* scaling is applied once, after the product.
C22_GMVScalesAfter ==
    pc = "done" /\ call.branch = "balanced" /\ ~call.excluded =>
        /\ Count(log, "csrmm") = 1
        /\ GMVSteps = <<"exchange", "csrmm", "diag", "exchange">>
        /\ GMVResult = T1("exchange", T1("diag", T1("csrmm", LocalResult)))
        /\ GMVResult.args[1].args[1].args[1].op # "diag"

\* a balanced call in mode SY on a non-excluded process: the product was
\* taken of the exchanged w and its result scaled and exchanged
C22_Witness ==
    /\ pc = "done" /\ call.branch = "balanced" /\ ~call.excluded /\ _type = "SY"
    /\ call.mu = 1 /\ GMVResult.op = "exchange" /\ GMVResult.args[1].op = "diag"
    /\ GMVResult.args[1].args[1] = T1("csrmm", LocalResult)

\* ------------------------------------------------------------------ C23
\* the temporary vector of the balanced strategy holds dof entries: one
\* column and nothing behind it (line 295). In the other strategies, and on
\* an excluded process, no access leaves a buffer, so that a balanced call
\* with oob set has left the temporary vector.
\* C23, as claimed: in the balanced strategy, every read and write on the
\* temporary vector that apply allocates with dof entries stays inside those
\* dof entries, for every number of right-hand sides mu >= 1 and every fuse
\* count >= 0 passed to apply.
C23_Claimed ==
    pc # "idle" /\ call.branch = "balanced" => ~oob

\* the accesses leave the temporary vector exactly on a non-excluded process
\* with mu > 1 (GMV writes mu * dof entries, line 296) or with fuse > 0
\* (deflation reads and writes fuse entries behind the dof entries, line 297)
C23_TmpOverrun ==
    pc # "idle" /\ call.branch = "balanced" =>
        (oob <=> ~call.excluded /\ (call.mu > 1 \/ call.fuse > 0))

\* ------------------------------------------------------------------ C24
\* the modes callNumfact can select
Selectable == {callNumfactType(A, method) : A \in BOOLEAN, method \in MethodValues}
\* the running call as it was entered
Entered ==
    applyWork([buf |-> CallBufs(call.mu, call.work, call.fuse), uc |-> Stale(_uc),
               log |-> <<>>, oob |-> FALSE], call.work)
\* the running call as the build without non-blocking collectives runs it
\* (lines 274-280)
AdditiveSynchronous ==
    applyAdditiveSync(Entered, _type, call.excluded, workPtr(call.work), call.fuse)
\* the running call as the build with non-blocking collectives runs it (lines
\* 261-269): Ideflation, the local solve, the join, which delivers the coarse
\* solution, and the projection, sum, scaling and exchange
AdditiveNonBlocking ==
    LET wk == workPtr(call.work)
        a == Ideflation(Entered, call.excluded, "in", "out", call.fuse, FALSE)
        b == solve(a, wk, wk, 1)
        c == [b EXCEPT !.uc = Esolve(b.uc, call.excluded, call.fuse),
                       !.log = Append(@, "MPI_Waitall")]
    IN  applyAdditiveJoin(c, wk)
\* the scaling and exchange steps that act on the coarse term: those that
\* follow its projection back, out <- Z uc
CoarseTermSteps(l) ==
    LET i == CHOOSE n \in 1 .. Len(l) : l[n] = "gemv_transa"
    IN  SelectSeq(SubSeq(l, i + 1, Len(l)), LAMBDA e : e \in {"diag", "exchange"})
\* the call is an overlapped-additive one, returned, on a non-excluded process
AdditiveDone == pc = "done" /\ call.branch = "additive" /\ ~call.excluded

\* C24, as claimed: for the overlapped-additive strategy on a non-excluded
\* process, the variant built with non-blocking collectives and the variant
\* built without them apply the same sequence of scaling and exchange steps to
\* the coarse term and give the same output for the same input, for every
\* mode that callNumfact can select.
C24_Claimed ==
    AdditiveDone /\ _type \in Selectable =>
        /\ CoarseTermSteps(AdditiveSynchronous.log) = CoarseTermSteps(AdditiveNonBlocking.log)
        /\ AdditiveSynchronous.buf["out"].col = AdditiveNonBlocking.buf["out"].col

\* C24, amended: for the overlapped-additive strategy on a non-excluded
\* process, both variants project the same coarse solution back, add the same
\* local solve of the input and scale and exchange the sum, but they do not
\* apply the same steps to the coarse term: in every mode callNumfact can
\* select, the variant built without non-blocking collectives scales and
\* exchanges the coarse term inside deflation, before the local solve is
\* added, and then again with the sum (scale, exchange, scale, exchange),
\* while the variant built with them scales and exchanges it once, with the
\* sum. The two variants run the same steps only in mode AD, which callNumfact
\* does not select.
C24_AdditiveVariants ==
    AdditiveDone =>
        LET S == AdditiveSynchronous
            N == AdditiveNonBlocking
            run == IF icollective THEN N ELSE S
            sum(c) == T1("exchange", T1("diag", Tm("axpy", 1, <<T1("solve", In(1)), c>>)))
        IN  /\ log = run.log /\ Out.col = run.buf["out"].col
            /\ N.buf["out"].col[1] = sum(T1("Z", CoarseSolution))
            /\ S.buf["out"].col[1] = sum(CoarseCorrection)
            /\ CoarseTermSteps(N.log) = <<"diag", "exchange">>
            /\ _type \in Selectable =>
                   /\ CoarseTermSteps(S.log) = <<"diag", "exchange", "diag", "exchange">>
                   /\ CoarseCorrection = T1("exchange", T1("diag", T1("Z", CoarseSolution)))
            /\ (S.log = N.log \/ S.buf["out"].col = N.buf["out"].col
                   \/ CoarseTermSteps(S.log) = CoarseTermSteps(N.log)) => _type = "AD"
            /\ "AD" \notin Selectable

\* an overlapped-additive call built without non-blocking collectives, in
\* mode GE on a non-excluded process: the coarse term under the sum has been
\* scaled and exchanged by deflation
C24_Witness ==
    /\ AdditiveDone /\ ~icollective /\ _type = "GE" /\ call.fuse = 0
    /\ Out.col[1].args[1].args[1].args[2] = T1("exchange", T1("diag", T1("Z", CoarseSolution)))
    /\ Count(log, "exchange") = 2

\* ------------------------------------------------------- scaleIntoOverlap
\* Subdomain<K>::_dof: the unknowns of the subdomain, numbered 0 .. Dof - 1
Dof == 3
\* the entry i of a C array held as a sequence
At(a, i) == a[i + 1]
\* what a freshly allocated array holds
Uninitialized == -1

\* a weight is zero, not above HPDDM_EPS, small or one
OverlapWeights == {RZero, <<1, 2000>>, <<1, 10>>, ROne}
\* the neighbors and the indices shared with each, in the order of the map
OverlapMaps ==
    {<<>>, <<<<0>>>>, <<<<0, 1>>>>, <<<<Dof - 1, 1>>, <<0>>>>, <<<<0, 1>>, <<1, Dof - 1>>>>}

\* the stored entries of row i of a tridiagonal matrix, in the order they
\* are stored: with _sym only the lower triangle is stored
TridiagonalRow(sym, diagFirst, lo, dg, up, i) ==
    LET l == IF i > 0 THEN <<[ja |-> i - 1, a |-> lo]>> ELSE <<>>
        d == <<[ja |-> i, a |-> dg]>>
        u == IF i < Dof - 1 /\ ~sym THEN <<[ja |-> i + 1, a |-> up]>> ELSE <<>>
    IN  IF diagFirst THEN d \o l \o u ELSE l \o d \o u

\* the entries of the rows before row n, one after the other
RECURSIVE RowsBefore(_, _)
RowsBefore(rows, n) == IF n = 0 THEN <<>> ELSE RowsBefore(rows, n - 1) \o rows[n]

\* MatrixCSR<K>(dof, dof, nnz, sym) holding the given rows
CSROf(sym, rows) ==
    LET all == RowsBefore(rows, Dof)
    IN  [_sym |-> sym,
         _ia |-> [r \in 1 .. Dof + 1 |-> Len(RowsBefore(rows, r - 1))],
         _ja |-> [n \in 1 .. Len(all) |-> all[n].ja],
         _a |-> [n \in 1 .. Len(all) |-> all[n].a]]

\* an entry of A is small or large, of either sign
OverlapValues == {<<1, 50>>, <<-2, 1>>}
OverlapMatrices ==
    {CSROf(sym, [r \in 1 .. Dof |-> TridiagonalRow(sym, diagFirst, lo, dg, up, r - 1)]) :
        sym \in BOOLEAN, diagFirst \in BOOLEAN,
        lo \in OverlapValues, dg \in {<<1, 50>>, <<2, 1>>}, up \in OverlapValues}

\* lines 317-320
overlapCollect(d, map) ==
    {i \in 0 .. Dof - 1 :
        \E n \in 1 .. Len(map) : \E q \in 1 .. Len(map[n]) :
            map[n][q] = i /\ RLess(HPDDM_EPS, At(d, i))}

\* line 325, std::next(intoOverlap.cbegin(), k): a std::set iterates in
\* increasing order
SetNext(S, k) == CHOOSE i \in S : Cardinality({x \in S : x < i}) = k

\* overlapKept without the test of the column
overlapKept_anyColumn(value, col, S) == RLess(HPDDM_EPS, RAbs(value))

\* line 329
overlapKept(value, col, S) == RLess(HPDDM_EPS, RAbs(value)) /\ col \in S

\* lines 325-331: the pairs kept of the row of the k-th element of the set
overlapRow(A, d, S, k) ==
    LET it == SetNext(S, k)
        first == At(A._ia, it)
        last == At(A._ia, it + 1)
        pairs == [n \in 1 .. last - first |->
                     LET j == first + n - 1
                     IN  [first |-> At(A._ja, j),
                          second |-> RMul(RMul(At(d, it), At(d, At(A._ja, j))), At(A._a, j))]]
    IN  SelectSeq(pairs, LAMBDA pr : overlapKept(pr.second, pr.first, S))

\* std::fill(a + first, a + last, v)
std_fill(a, first, last, v) ==
    [n \in 1 .. Len(a) |-> IF first < n /\ n <= last THEN v ELSE a[n]]

\* line 337
NewMatrixCSR(nnz, sym) ==
    [_sym |-> sym,
     _ia |-> [r \in 1 .. Dof + 1 |-> Uninitialized],
     _ja |-> [n \in 1 .. nnz |-> Uninitialized],
     _a |-> [n \in 1 .. nnz |-> <<Uninitialized, 1>>]]

\* lines 339-348, from the k-th element of the set on
RECURSIVE overlapAssemble(_, _, _, _, _, _)
overlapAssemble(B, S, tmp, k, iPrev, nnz) ==
    IF k = Cardinality(S)
    THEN [B EXCEPT !._ia = std_fill(@, iPrev, Dof + 1, nnz)]
    ELSE LET i == SetNext(S, k)
             kept == tmp[k + 1]
             here(n) == nnz < n /\ n <= nnz + Len(kept)
             B1 == [B EXCEPT !._ia = std_fill(@, iPrev, i + 1, nnz),
                             !._ja = [n \in 1 .. Len(@) |->
                                         IF here(n) THEN kept[n - nnz].first ELSE @[n]],
                             !._a = [n \in 1 .. Len(@) |->
                                        IF here(n) THEN kept[n - nnz].second ELSE @[n]]]
         IN  overlapAssemble(B1, S, tmp, k + 1, i + 1, nnz + Len(kept))

\* iPrev after the parallel loop: the sum of the sizes of the tmp[k]
RECURSIVE overlapCount(_, _)
overlapCount(tmp, n) == IF n = 0 THEN 0 ELSE overlapCount(tmp, n - 1) + Len(tmp[n])

\* the caller is about to call scaleIntoOverlap(A, B) with B a null pointer
InitOverlap ==
    /\ overlapD \in [1 .. Dof -> OverlapWeights]
    /\ overlapMap \in OverlapMaps
    /\ overlapA \in OverlapMatrices
    /\ overlapB = NullMatrix
    /\ intoOverlap = {}
    /\ overlapTmp = <<>>
    /\ overlapRows = {}
    /\ opc = "entry"
    /\ NoApply /\ NoScaling /\ NoGEVP /\ NoError

\* lines 316-322
scaleIntoOverlapCollect ==
    /\ opc = "entry"
    /\ intoOverlap' = overlapCollect(overlapD, overlapMap)
    /\ overlapTmp' = [k \in 1 .. Cardinality(intoOverlap') |-> <<>>]
    /\ opc' = "rows"
    /\ UNCHANGED <<overlapD, overlapMap, overlapA, overlapB, overlapRows>>
    /\ UNCHANGED <<applyVars, scalingVars, gevpVars, errorVars>>

\* lines 324-333: one iteration of the parallel loop, which runs them in any
\* order
scaleIntoOverlapRow(k) ==
    /\ opc = "rows"
    /\ k \in 0 .. Cardinality(intoOverlap) - 1
    /\ k \notin overlapRows
    /\ overlapTmp' = [overlapTmp EXCEPT
                         ![k + 1] = overlapRow(overlapA, overlapD, intoOverlap, k)]
    /\ overlapRows' = overlapRows \cup {k}
    /\ UNCHANGED <<overlapD, overlapMap, overlapA, overlapB, intoOverlap, opc>>
    /\ UNCHANGED <<applyVars, scalingVars, gevpVars, errorVars>>

\* lines 334-348
scaleIntoOverlapAssemble ==
    /\ opc = "rows"
    /\ overlapRows = 0 .. Cardinality(intoOverlap) - 1
    /\ LET nnz == overlapCount(overlapTmp, Len(overlapTmp))
       IN  overlapB' = overlapAssemble(NewMatrixCSR(nnz, overlapA._sym), intoOverlap,
                                       overlapTmp, 0, 0, 0)
    /\ opc' = "returned"
    /\ UNCHANGED <<overlapD, overlapMap, overlapA, intoOverlap, overlapTmp, overlapRows>>
    /\ UNCHANGED <<applyVars, scalingVars, gevpVars, errorVars>>

NextOverlap ==
    \/ scaleIntoOverlapCollect
    \/ \E k \in 0 .. Dof - 1 : scaleIntoOverlapRow(k)
    \/ scaleIntoOverlapAssemble

SpecOverlap == InitOverlap /\ [][NextOverlap]_vars

\* ------------------------------------------------------------------ C21
\* the overlap set: the indices listed for at least one neighbor whose weight
\* exceeds epsilon
OverlapSet ==
    {i \in 0 .. Dof - 1 :
        /\ \E n \in 1 .. Len(overlapMap) : \E q \in 1 .. Len(overlapMap[n]) :
              overlapMap[n][q] = i
        /\ RLess(HPDDM_EPS, At(overlapD, i))}
\* the stored entries of row i of M, in the order they are stored
RowEntries(M, i) ==
    [n \in 1 .. At(M._ia, i + 1) - At(M._ia, i) |->
        [ja |-> M._ja[At(M._ia, i) + n], a |-> M._a[At(M._ia, i) + n]]]
\* d_i * d_j * A_ij for the entry e of row i
Scaled(i, e) == RMul(RMul(At(overlapD, i), At(overlapD, e.ja)), e.a)
\* the entry e of row i of A is to be in B
Present(i, e) ==
    i \in OverlapSet /\ e.ja \in OverlapSet /\ RLess(HPDDM_EPS, RAbs(Scaled(i, e)))
\* the entries of row i of A that are to be in B, scaled, in the order of A
ExpectedRow(i) ==
    LET kept == SelectSeq(RowEntries(overlapA, i), LAMBDA e : Present(i, e))
    IN  [n \in 1 .. Len(kept) |-> [ja |-> kept[n].ja, a |-> Scaled(i, kept[n])]]

\* C21: scaleIntoOverlap builds a dof-by-dof matrix B in which an entry
\* (i, j) with value d_i * d_j * A_ij is present exactly when A has that
\* entry, i and j both belong to the overlap set and the magnitude of
\* d_i * d_j * A_ij exceeds epsilon; every row outside the overlap set is
\* empty, row pointers are non-decreasing from 0 to the number of stored
\* entries, and entries keep the column order of A.
C21_OverlapMatrix ==
    opc = "returned" =>
        /\ Len(overlapB._ia) = Dof + 1
        /\ At(overlapB._ia, 0) = 0
        /\ At(overlapB._ia, Dof) = Len(overlapB._ja)
        /\ Len(overlapB._a) = Len(overlapB._ja)
        /\ \A i \in 0 .. Dof - 1 :
              /\ At(overlapB._ia, i) <= At(overlapB._ia, i + 1)
              /\ RowEntries(overlapB, i) = ExpectedRow(i)
              /\ i \notin OverlapSet => At(overlapB._ia, i) = At(overlapB._ia, i + 1)

\* B has been built from a matrix of which one row is outside the overlap
\* set, one entry was dropped for its column, one for its magnitude, and one
\* was kept behind an entry that was dropped
C21_Witness ==
    /\ opc = "returned"
    /\ Cardinality(OverlapSet) = Dof - 1
    /\ Len(overlapB._ja) > 0
    /\ \E i \in OverlapSet :
          LET r == RowEntries(overlapA, i)
          IN  /\ \E n \in 1 .. Len(r) :
                    r[n].ja \notin OverlapSet /\ RLess(HPDDM_EPS, RAbs(Scaled(i, r[n])))
              /\ \E n \in 1 .. Len(r) :
                    r[n].ja \in OverlapSet /\ ~RLess(HPDDM_EPS, RAbs(Scaled(i, r[n])))
              /\ \E n, q \in 1 .. Len(r) : n < q /\ ~Present(i, r[n]) /\ Present(i, r[q])

====
